---- MODULE Spec2Model ----
\* Matchmaking over WebSocket (server/src/index.js): the waiting list and the
\* match mailboxes kept in Redis, the in-memory cooldown map, and the message
\* handlers of every connection.  A handler is an async function: it runs
\* without interruption up to the Redis command it awaits and resumes later,
\* so every awaited Redis command is one step, and handlers of different
\* connections, and of the same connection, interleave between the steps.
\* A Redis command takes effect when it is issued (one client connection,
\* commands served in order); the step that resumes the handler gets its reply.
EXTENDS Integers, Sequences, FiniteSets, TLC

\* ---------------------------------------------------------------- constants

\* NEXT_COOLDOWN_SECONDS, the default of the environment
NEXT_COOLDOWN_SECONDS == 5
\* milliseconds in a second, the factor of the cooldown check
MsPerSecond == 1000
\* the time-to-live of a match:<id> key, in seconds
MatchTtlSeconds == 60
\* the stop index asked of lrange is Math.min(50, len-1)
ScanStop == 50
\* msg.tags.slice(0,5)
MaxTags == 5
\* msg.lang.slice(0,16)
MaxLangLen == 16

\* ------------------------------------------------------------------- bounds

\* handlers that may be suspended on a Redis reply at the same time
MaxHandlers == 2
\* rooms (matches) created in one run
MaxRooms == 2
\* longest waiting list the selection specification starts from
MaxPool == 2
\* milliseconds the clock may move between two readings inside one handler
MaxSkewMs == 1
\* entries a waiting list may hold beyond the stop index of the scan
ScanExtra == 2

\* the connections: ws.id of each
Clients == {"c1", "c2", "c3", "c4"}
\* the value of getCountryFromReq when geoip knows nothing (null)
Null == ""
Countries == {"US", "FR"}
\* Date.now() when the run starts: any real clock is past one cooldown window
StartNow == NEXT_COOLDOWN_SECONDS * MsPerSecond
Rooms == 1..MaxRooms
Handlers == 1..MaxHandlers
\* the instants the clock is moved to: one time-to-live after the start
Instants == {StartNow + MatchTtlSeconds * MsPerSecond}
\* the instants around the end of a cooldown window marked at the start
CooldownInstants ==
  {StartNow + d : d \in {1, (NEXT_COOLDOWN_SECONDS * MsPerSecond) \div 2,
                         NEXT_COOLDOWN_SECONDS * MsPerSecond - 1,
                         NEXT_COOLDOWN_SECONDS * MsPerSecond}}
\* every instant the clock shows
ClockGrid == {StartNow} \cup Instants \cup CooldownInstants

VARIABLES
  queue,         \* the Redis list waiting:list, head first
  mailbox,       \* the Redis keys match:<id>, one slot per connection
  nextCooldown,  \* the Map nextCooldown: ws.id -> ts (0 when absent)
  now,           \* the clock, in milliseconds (Date.now(), Redis expiry)
  country,       \* getCountryFromReq(req) of each connection
  open,          \* ws.readyState === ws.OPEN of each connection
  secret,        \* whether RECAPTCHA_SECRET is set
  hs,            \* the handlers suspended on a Redis reply
  nextRoom,      \* the next fresh room id (uid.sync never repeats)
  last,          \* the messages sent by the latest step, in order
  matches,       \* history: every match made by a find handler
  taken,         \* history: how often getdel returned each room
  threw,         \* history: a handler ended by an uncaught exception
  told           \* history: matched was sent to the connection after its
                 \* latest find message

vars == <<queue, mailbox, nextCooldown, now, country, open, secret, hs, nextRoom,
          last, matches, taken, threw, told>>

\* ------------------------------------------------------------------ helpers

Min(a, b) == IF a < b THEN a ELSE b

\* Math.ceil(a / b) for b > 0
Ceil(a, b) == -((-a) \div b)

\* Array.prototype.slice(from, to) and String.prototype.slice(from, to),
\* 0-based, to exclusive, on a sequence
Slice(s, from, to) == SubSeq(s, from + 1, Min(to, Len(s)))

\* no entry: parsed[idx] of an empty snapshot (undefined)
NoEntry == [id |-> "", ts |-> 0, tags |-> <<>>, lang |-> <<>>, country |-> Null]

\* no value under a match:<id> key
NoAssign == [room |-> 0, token |-> <<>>, partner |-> "", exp |-> 0]

\* createLiveKitToken({identity, room}): a credential for that identity and room
createLiveKitToken(identity, room) == <<identity, room>>

\* a message handed to safeSend
Msg(to, type, room, token, partner, seconds) ==
  [to |-> to, type |-> type, room |-> room, token |-> token,
   partner |-> partner, seconds |-> seconds]

\* safeSend(ws, obj): sent only while the socket is OPEN
safeSend(c, m) == IF open[c] THEN <<m>> ELSE <<>>

\* a handler not running
Idle == [pc |-> "idle", id |-> "", entry |-> NoEntry, len |-> 0,
         candidates |-> <<>>, chosen |-> NoEntry, removed |-> 0,
         payload |-> NoAssign]

\* the lowest free handler slot
FreeSlot == CHOOSE h \in Handlers :
              /\ hs[h].pc = "idle"
              /\ \A g \in Handlers : hs[g].pc = "idle" => h <= g

HasFreeSlot == \E h \in Handlers : hs[h].pc = "idle"

\* find handlers in flight: each may still create a room
FindsInFlight == {h \in Handlers : hs[h].pc \in {"llen", "lrange", "lrem", "rpush"}}

\* Redis drops the keys whose time-to-live has run out at time t
Expire(mb, t) == [c \in Clients |->
                    IF mb[c].room # 0 /\ mb[c].exp <= t THEN NoAssign ELSE mb[c]]

\* ------------------------------------------------------------ Redis commands

\* LRANGE key start stop: both ends inclusive, 0-based
LRange(q, start, stop) == SubSeq(q, start + 1, Min(stop + 1, Len(q)))

\* index (1-based) of the first element of q equal to v, 0 when there is none
FirstAt(q, v) == IF \E i \in 1..Len(q) : q[i] = v
                 THEN CHOOSE i \in 1..Len(q) :
                        q[i] = v /\ \A j \in 1..(i - 1) : q[j] # v
                 ELSE 0

\* LREM key 1 v: removes the first element equal to v; the reply is the
\* number of elements removed
LRem(q, v) == LET i == FirstAt(q, v) IN
              IF i = 0 THEN [list |-> q, removed |-> 0]
              ELSE [list |-> SubSeq(q, 1, i - 1) \o SubSeq(q, i + 1, Len(q)),
                    removed |-> 1]

\* GET in place of GETDEL: the value is read and the key stays
GetKeep(mb, c) == [value |-> mb[c], store |-> mb]

\* GETDEL key: the reply is the value, and the key is gone
GetDel(mb, c) == [value |-> mb[c], store |-> [mb EXCEPT ![c] = NoAssign]]

\* SETEX key seconds value
SetEx(mb, c, seconds, v, t) ==
  [mb EXCEPT ![c] = [v EXCEPT !.exp = t + seconds * MsPerSecond]]

\* -------------------------------------------------------------- verification

\* the verifier's answer not looked at: every proof passes
verifyCaptchaFailOpen(hasSecret, verdict) == TRUE

\* verifyCaptcha(token): true without a secret; with one, the verdict of the
\* verifier, and false when the request to it fails
verifyCaptcha(hasSecret, verdict) == IF ~hasSecret THEN TRUE ELSE verdict

\* ------------------------------------------------------------------ cooldown

\* the window taken in seconds where the clock is in milliseconds
InCooldownNoFactor(lastMark, t) == t - lastMark < NEXT_COOLDOWN_SECONDS

\* Date.now() - last < Number(NEXT_COOLDOWN_SECONDS) * 1000
InCooldown(lastMark, t) == t - lastMark < NEXT_COOLDOWN_SECONDS * MsPerSecond

\* Math.ceil((Number(NEXT_COOLDOWN_SECONDS)*1000 - (Date.now()-last))/1000)
CooldownSeconds(lastMark, t) ==
  Ceil(NEXT_COOLDOWN_SECONDS * MsPerSecond - (t - lastMark), MsPerSecond)

\* the mark set only when the connection has none yet
MarkOnce(cd, c, t) == IF cd[c] = 0 THEN [cd EXCEPT ![c] = t] ELSE cd

\* nextCooldown.set(ws.id, Date.now())
Mark(cd, c, t) == [cd EXCEPT ![c] = t]

\* ----------------------------------------------------------------- selection

\* the waiting entry a find builds for its connection
MakeEntry(c, t, tags, lang, ctry) ==
  [id |-> c, ts |-> t, tags |-> Slice(tags, 0, MaxTags),
   lang |-> Slice(lang, 0, MaxLangLen), country |-> ctry]

\* list.findIndex(x => x.country === prefer), 0-based, -1 when there is none
FindCountry(list, prefer) ==
  IF \E i \in 1..Len(list) : list[i].country = prefer
  THEN (CHOOSE i \in 1..Len(list) :
          /\ list[i].country = prefer
          /\ \A j \in 1..(i - 1) : list[j].country # prefer) - 1
  ELSE -1

\* the same-country entry taken whatever the trial gives
countryBiasMatchNoTrial(list, prefer, trial) ==
  IF prefer = Null THEN 0
  ELSE LET idx == FindCountry(list, prefer) IN
       IF idx = -1 THEN 0 ELSE idx

\* countryBiasMatch(list, prefer); trial is Math.random() < MATCH_SAME_COUNTRY_BIAS
countryBiasMatch(list, prefer, trial) ==
  IF prefer = Null THEN 0
  ELSE LET idx == FindCountry(list, prefer) IN
       IF idx = -1 THEN 0 ELSE IF trial THEN idx ELSE 0

\* p.tags?.some(t => tags.has(t))
Overlap(p, tags) ==
  \E i \in 1..Len(p.tags) : \E j \in 1..Len(tags) : p.tags[i] = tags[j]

\* !lang || !p.lang || p.lang === lang
LangOK(p, lang) == lang = <<>> \/ p.lang = <<>> \/ p.lang = lang

\* the test of the scan loop
Compatible(p, tags, lang) == Overlap(p, tags) \/ LangOK(p, lang)

\* the index (0-based) the loop breaks at, -1 when it runs to the end
FirstCompatible(parsed, tags, lang) ==
  IF \E i \in 1..Len(parsed) : Compatible(parsed[i], tags, lang)
  THEN (CHOOSE i \in 1..Len(parsed) :
          /\ Compatible(parsed[i], tags, lang)
          /\ \A j \in 1..(i - 1) : ~Compatible(parsed[j], tags, lang)) - 1
  ELSE -1

\* the scan overriding the country bias only when the bias picked nothing
SelectIdxBiasFirst(parsed, entry, trial) ==
  LET bias  == countryBiasMatch(parsed, entry.country, trial)
      first == FirstCompatible(parsed, entry.tags, entry.lang)
  IN IF bias = 0 /\ first # -1 THEN first ELSE bias

\* idx after the country bias and the scan
SelectIdx(parsed, entry, trial) ==
  LET bias  == countryBiasMatch(parsed, entry.country, trial)
      first == FirstCompatible(parsed, entry.tags, entry.lang)
  IN IF first # -1 THEN first ELSE bias

\* parsed[idx] || parsed[0]
Chosen(parsed, idx) ==
  IF idx >= 0 /\ idx < Len(parsed) THEN parsed[idx + 1]
  ELSE IF Len(parsed) > 0 THEN parsed[1]
  ELSE NoEntry

\* ------------------------------------------------------------------- actions

\* a find message: captcha, cooldown check, the entry, and LLEN issued.
\* Date.now() is read for the cooldown test, again for the seconds of the
\* cooldown message, and again for the ts of the entry: skew is the time the
\* clock moves between the first reading and the later ones.
Find(c, tags, lang, verdict, skew) ==
  /\ open[c]
  /\ skew = 0 \/ now + skew \in ClockGrid
  /\ told' = [told EXCEPT ![c] = FALSE]
  /\ IF ~verifyCaptcha(secret, verdict)
     THEN /\ last' = safeSend(c, Msg(c, "error", 0, <<>>, "", 0))
          /\ UNCHANGED <<queue, mailbox, nextCooldown, now, country, open,
                         secret, hs, nextRoom, matches, taken, threw>>
     ELSE IF InCooldown(nextCooldown[c], now)
     THEN /\ last' = safeSend(c, Msg(c, "cooldown", 0, <<>>, "",
                                     CooldownSeconds(nextCooldown[c], now + skew)))
          /\ now' = now + skew
          /\ mailbox' = Expire(mailbox, now + skew)
          /\ UNCHANGED <<queue, nextCooldown, country, open, secret, hs,
                         nextRoom, matches, taken, threw>>
     ELSE /\ HasFreeSlot
          /\ (nextRoom - 1) + Cardinality(FindsInFlight) < MaxRooms
          /\ hs' = [hs EXCEPT ![FreeSlot] =
                      [Idle EXCEPT !.pc = "llen", !.id = c,
                         !.entry = MakeEntry(c, now + skew, tags, lang, country[c]),
                         !.len = Len(queue)]]
          /\ now' = now + skew
          /\ mailbox' = Expire(mailbox, now + skew)
          /\ last' = <<>>
          /\ UNCHANGED <<queue, nextCooldown, country, open, secret,
                         nextRoom, matches, taken, threw>>

\* the entry pushed whatever LLEN returned, before the attempt to match
FindAfterLLenAlwaysPush(h) ==
  /\ hs[h].pc = "llen"
  /\ queue' = Append(queue, hs[h].entry)
  /\ IF hs[h].len > 0
     THEN hs' = [hs EXCEPT ![h].pc = "lrange",
                   ![h].candidates =
                      LRange(queue, 0, Min(ScanStop, hs[h].len - 1))]
     ELSE hs' = [hs EXCEPT ![h].pc = "rpush"]
  /\ last' = <<>>
  /\ UNCHANGED <<mailbox, nextCooldown, now, country, open, secret, nextRoom,
                 matches, taken, threw, told>>

\* the LLEN reply: LRANGE issued when len > 0, RPUSH issued otherwise
FindAfterLLen(h) ==
  /\ hs[h].pc = "llen"
  /\ IF hs[h].len > 0
     THEN /\ hs' = [hs EXCEPT ![h].pc = "lrange",
                      ![h].candidates =
                         LRange(queue, 0, Min(ScanStop, hs[h].len - 1))]
          /\ UNCHANGED queue
     ELSE /\ queue' = Append(queue, hs[h].entry)
          /\ hs' = [hs EXCEPT ![h].pc = "rpush"]
  /\ last' = <<>>
  /\ UNCHANGED <<mailbox, nextCooldown, now, country, open, secret, nextRoom,
                 matches, taken, threw, told>>

\* the RPUSH reply: queued is sent and the handler ends
FindAfterRPush(h) ==
  /\ hs[h].pc = "rpush"
  /\ last' = safeSend(hs[h].id, Msg(hs[h].id, "queued", 0, <<>>, "", 0))
  /\ hs' = [hs EXCEPT ![h] = Idle]
  /\ UNCHANGED <<queue, mailbox, nextCooldown, now, country, open, secret,
                 nextRoom, matches, taken, threw, told>>

\* the LRANGE reply: the partner is selected and LREM issued for it
FindAfterLRange(h, trial) ==
  /\ hs[h].pc = "lrange"
  /\ LET parsed == hs[h].candidates
         idx    == SelectIdx(parsed, hs[h].entry, trial)
         chosen == Chosen(parsed, idx)
         rem    == LRem(queue, chosen)
     IN /\ queue' = rem.list
        /\ hs' = [hs EXCEPT ![h].pc = "lrem", ![h].chosen = chosen,
                            ![h].removed = rem.removed]
  /\ last' = <<>>
  /\ UNCHANGED <<mailbox, nextCooldown, now, country, open, secret, nextRoom,
                 matches, taken, threw, told>>

\* the LREM reply (not looked at): room, tokens, matched to the requester,
\* SETEX issued for the partner.  With an empty snapshot chosen is undefined
\* and chosen.id throws before anything is sent.
FindAfterLRem(h) ==
  /\ hs[h].pc = "lrem"
  /\ IF hs[h].chosen = NoEntry
     THEN /\ threw' = TRUE
          /\ last' = <<>>
          /\ UNCHANGED <<mailbox, nextRoom, matches, told>>
     ELSE LET c         == hs[h].id
              peer      == hs[h].chosen.id
              room      == nextRoom
              tokenSelf == createLiveKitToken(c, room)
              tokenPeer == createLiveKitToken(peer, room)
              value     == [room |-> room, token |-> tokenPeer,
                            partner |-> c, exp |-> 0]
          IN /\ last' = safeSend(c, Msg(c, "matched", room, tokenSelf, peer, 0))
             /\ told' = [told EXCEPT ![c] = @ \/ open[c]]
             /\ mailbox' = SetEx(mailbox, peer, MatchTtlSeconds, value, now)
             /\ nextRoom' = nextRoom + 1
             /\ matches' = matches \cup
                  {[req |-> c, partner |-> peer, room |-> room,
                    removed |-> hs[h].removed,
                    exp |-> now + MatchTtlSeconds * MsPerSecond]}
             /\ UNCHANGED threw
  /\ hs' = [hs EXCEPT ![h] = Idle]
  /\ UNCHANGED <<queue, nextCooldown, now, country, open, secret, taken>>

\* the LLEN reply is an error (the store is unavailable): the await throws,
\* the handler has no try/catch, its promise is rejected and nothing is sent
FindAfterLLenFails(h) ==
  /\ hs[h].pc = "llen"
  /\ threw' = TRUE
  /\ last' = <<>>
  /\ hs' = [hs EXCEPT ![h] = Idle]
  /\ UNCHANGED <<queue, mailbox, nextCooldown, now, country, open, secret,
                 nextRoom, matches, taken, told>>

\* the LREM reply, and createLiveKitToken throws (the issuer fails): the
\* handler ends before matched is sent and before SETEX is issued
FindAfterLRemIssuerFails(h) ==
  /\ hs[h].pc = "lrem"
  /\ hs[h].chosen # NoEntry
  /\ threw' = TRUE
  /\ last' = <<>>
  /\ hs' = [hs EXCEPT ![h] = Idle]
  /\ UNCHANGED <<queue, mailbox, nextCooldown, now, country, open, secret,
                 nextRoom, matches, taken, told>>

\* the LREM reply, room and tokens, matched to the requester, and SETEX is
\* answered with an error: nothing is stored for the partner and the await
\* throws after matched was sent
FindAfterLRemSetExFails(h) ==
  /\ hs[h].pc = "lrem"
  /\ hs[h].chosen # NoEntry
  /\ LET c         == hs[h].id
         peer      == hs[h].chosen.id
         room      == nextRoom
         tokenSelf == createLiveKitToken(c, room)
     IN /\ last' = safeSend(c, Msg(c, "matched", room, tokenSelf, peer, 0))
        /\ told' = [told EXCEPT ![c] = @ \/ open[c]]
        /\ nextRoom' = nextRoom + 1
        /\ matches' = matches \cup
             {[req |-> c, partner |-> peer, room |-> room,
               removed |-> hs[h].removed,
               exp |-> now + MatchTtlSeconds * MsPerSecond]}
  /\ threw' = TRUE
  /\ hs' = [hs EXCEPT ![h] = Idle]
  /\ UNCHANGED <<queue, mailbox, nextCooldown, now, country, open, secret,
                 taken>>

\* a poll message: GETDEL issued
Poll(c) ==
  /\ open[c]
  /\ HasFreeSlot
  /\ LET r == GetDel(mailbox, c) IN
     /\ mailbox' = r.store
     /\ hs' = [hs EXCEPT ![FreeSlot] =
                 [Idle EXCEPT !.pc = "getdel", !.id = c, !.payload = r.value]]
     /\ taken' = IF r.value.room # 0
                 THEN [taken EXCEPT ![r.value.room] = @ + 1]
                 ELSE taken
  /\ last' = <<>>
  /\ UNCHANGED <<queue, nextCooldown, now, country, open, secret, nextRoom,
                 matches, threw, told>>

\* the reply handled without the test of the payload: matched is sent with
\* whatever GETDEL returned
PollAfterGetDelNoTest(h) ==
  /\ hs[h].pc = "getdel"
  /\ LET p == hs[h].payload IN
     last' = safeSend(hs[h].id,
                      Msg(hs[h].id, "matched", p.room, p.token, p.partner, 0))
  /\ told' = [told EXCEPT ![hs[h].id] = @ \/ open[hs[h].id]]
  /\ hs' = [hs EXCEPT ![h] = Idle]
  /\ UNCHANGED <<queue, mailbox, nextCooldown, now, country, open, secret,
                 nextRoom, matches, taken, threw>>

\* the GETDEL reply: with a payload, matched is sent with its fields
PollAfterGetDel(h) ==
  /\ hs[h].pc = "getdel"
  /\ LET p == hs[h].payload IN
     last' = IF p.room # 0
             THEN safeSend(hs[h].id,
                           Msg(hs[h].id, "matched", p.room, p.token, p.partner, 0))
             ELSE <<>>
  /\ told' = [told EXCEPT ![hs[h].id] =
                @ \/ (hs[h].payload.room # 0 /\ open[hs[h].id])]
  /\ hs' = [hs EXCEPT ![h] = Idle]
  /\ UNCHANGED <<queue, mailbox, nextCooldown, now, country, open, secret,
                 nextRoom, matches, taken, threw>>

\* a next message: the cooldown is marked, left and then queued are sent
NextMsg(c) ==
  /\ open[c]
  /\ nextCooldown' = Mark(nextCooldown, c, now)
  /\ last' = safeSend(c, Msg(c, "left", 0, <<>>, "", 0))
             \o safeSend(c, Msg(c, "queued", 0, <<>>, "", 0))
  /\ UNCHANGED <<queue, mailbox, now, country, open, secret, hs, nextRoom,
                 matches, taken, threw, told>>

\* a leave message: the cooldown is marked, left is sent
Leave(c) ==
  /\ open[c]
  /\ nextCooldown' = Mark(nextCooldown, c, now)
  /\ last' = safeSend(c, Msg(c, "left", 0, <<>>, "", 0))
  /\ UNCHANGED <<queue, mailbox, now, country, open, secret, hs, nextRoom,
                 matches, taken, threw, told>>

\* a report message: ok is sent; the report stream is no part of this state
Report(c) ==
  /\ open[c]
  /\ last' = safeSend(c, Msg(c, "ok", 0, <<>>, "", 0))
  /\ UNCHANGED <<queue, mailbox, nextCooldown, now, country, open, secret, hs,
                 nextRoom, matches, taken, threw, told>>

\* the connection closes: the close handler does nothing
Close(c) ==
  /\ open[c]
  /\ open' = [open EXCEPT ![c] = FALSE]
  /\ last' = <<>>
  /\ UNCHANGED <<queue, mailbox, nextCooldown, now, country, secret, hs,
                 nextRoom, matches, taken, threw, told>>

\* time passes; Redis drops the match keys whose time-to-live ran out.
\* A Redis round trip is short against the instants the clock is moved to:
\* the clock moves while no handler is suspended (the time that passes
\* inside a handler is the skew of Find).
Tick(t) ==
  /\ now < t
  /\ \A h \in Handlers : hs[h].pc = "idle"
  /\ now' = t
  /\ mailbox' = Expire(mailbox, t)
  /\ last' = <<>>
  /\ UNCHANGED <<queue, nextCooldown, country, open, secret, hs, nextRoom,
                 matches, taken, threw, told>>

\* ----------------------------------------------------------- specifications

\* the tags and languages the find messages carry
MsgTags == {<<"anime">>}
MsgLangs == {<<"e", "n">>}
\* the connections that send find and poll; the one that sends next, leave
\* and report, and closes
Senders == {"c1", "c2"}
Leavers == {"c1"}

Init ==
  /\ queue = <<>>
  /\ mailbox = [c \in Clients |-> NoAssign]
  /\ nextCooldown = [c \in Clients |-> 0]
  /\ now = StartNow
  /\ country = [c \in Clients |-> IF c = "c1" THEN "US" ELSE Null]
  /\ open = [c \in Clients |-> TRUE]
  /\ secret = TRUE
  /\ hs = [h \in Handlers |-> Idle]
  /\ nextRoom = 1
  /\ last = <<>>
  /\ matches = {}
  /\ taken = [r \in Rooms |-> 0]
  /\ threw = FALSE
  /\ told = [c \in Clients |-> FALSE]

\* every handler, two connections, the clock in steps of one time-to-live
Next ==
  \/ \E c \in Senders, tags \in MsgTags, lang \in MsgLangs, verdict \in BOOLEAN :
       Find(c, tags, lang, verdict, 0)
  \/ \E h \in Handlers : FindAfterLLen(h)
  \/ \E h \in Handlers : FindAfterRPush(h)
  \/ \E h \in Handlers, trial \in BOOLEAN : FindAfterLRange(h, trial)
  \/ \E h \in Handlers : FindAfterLRem(h)
  \/ \E c \in Senders : Poll(c)
  \/ \E h \in Handlers : PollAfterGetDel(h)
  \/ \E c \in Leavers : NextMsg(c)
  \/ \E c \in Leavers : Leave(c)
  \/ \E c \in Leavers : Report(c)
  \/ \E c \in Leavers : Close(c)
  \/ \E t \in Instants : Tick(t)

Spec == Init /\ [][Next]_vars

\* one connection, with or without a captcha secret, sending one find at a
\* time and next and leave at any time, the clock read around the end of the
\* cooldown window and moving between the readings of a handler
CooldownInit ==
  /\ queue = <<>>
  /\ mailbox = [c \in Clients |-> NoAssign]
  /\ nextCooldown = [c \in Clients |-> 0]
  /\ now = StartNow
  /\ country = [c \in Clients |-> IF c = "c1" THEN "US" ELSE Null]
  /\ open = [c \in Clients |-> TRUE]
  /\ secret \in BOOLEAN
  /\ hs = [h \in Handlers |-> Idle]
  /\ nextRoom = 1
  /\ last = <<>>
  /\ matches = {}
  /\ taken = [r \in Rooms |-> 0]
  /\ threw = FALSE
  /\ told = [c \in Clients |-> FALSE]

CooldownNext ==
  \/ \E c \in Leavers, tags \in MsgTags, lang \in MsgLangs, verdict \in BOOLEAN,
        skew \in 0..MaxSkewMs :
       /\ \A h \in Handlers : hs[h].pc = "idle"
       /\ Find(c, tags, lang, verdict, skew)
  \/ \E h \in Handlers : FindAfterLLen(h)
  \/ \E h \in Handlers : FindAfterRPush(h)
  \/ \E h \in Handlers, trial \in BOOLEAN : FindAfterLRange(h, trial)
  \/ \E h \in Handlers : FindAfterLRem(h)
  \/ \E c \in Leavers : Poll(c)
  \/ \E h \in Handlers : PollAfterGetDel(h)
  \/ \E c \in Leavers : NextMsg(c)
  \/ \E c \in Leavers : Leave(c)
  \/ \E t \in CooldownInstants : Tick(t)

CooldownSpec == CooldownInit /\ [][CooldownNext]_vars

\* two connections sending one find at a time and polls at any time, one of
\* them closing, the clock moving by one time-to-live: deposits, concurrent
\* polls and expiry
MailboxNext ==
  \/ \E c \in Senders, tags \in MsgTags, lang \in MsgLangs :
       /\ \A h \in Handlers : hs[h].pc = "idle"
       /\ Find(c, tags, lang, TRUE, 0)
  \/ \E h \in Handlers : FindAfterLLen(h)
  \/ \E h \in Handlers : FindAfterRPush(h)
  \/ \E h \in Handlers, trial \in BOOLEAN : FindAfterLRange(h, trial)
  \/ \E h \in Handlers : FindAfterLRem(h)
  \/ \E c \in Senders : Poll(c)
  \/ \E h \in Handlers : PollAfterGetDel(h)
  \/ \E c \in Leavers : Close(c)
  \/ \E t \in Instants : Tick(t)

MailboxSpec == Init /\ [][MailboxNext]_vars

\* two connections sending one find at a time and polling, the store and
\* the token issuer answering any call of a find with an error
FailureNext ==
  \/ \E c \in Senders, tags \in MsgTags, lang \in MsgLangs :
       /\ \A h \in Handlers : hs[h].pc = "idle"
       /\ Find(c, tags, lang, TRUE, 0)
  \/ \E h \in Handlers : FindAfterLLen(h)
  \/ \E h \in Handlers : FindAfterLLenFails(h)
  \/ \E h \in Handlers : FindAfterRPush(h)
  \/ \E h \in Handlers, trial \in BOOLEAN : FindAfterLRange(h, trial)
  \/ \E h \in Handlers : FindAfterLRem(h)
  \/ \E h \in Handlers : FindAfterLRemIssuerFails(h)
  \/ \E h \in Handlers : FindAfterLRemSetExFails(h)
  \/ \E c \in Senders : Poll(c)
  \/ \E h \in Handlers : PollAfterGetDel(h)

FailureSpec == Init /\ [][FailureNext]_vars

\* every message handled to its end before the next one is taken: no handler
\* is suspended when a message arrives or the clock moves
NoneSuspended == \A h \in Handlers : hs[h].pc = "idle"

SerialNext ==
  \/ \E c \in Senders, tags \in MsgTags, lang \in MsgLangs, verdict \in BOOLEAN :
       NoneSuspended /\ Find(c, tags, lang, verdict, 0)
  \/ \E h \in Handlers : FindAfterLLen(h)
  \/ \E h \in Handlers : FindAfterRPush(h)
  \/ \E h \in Handlers, trial \in BOOLEAN : FindAfterLRange(h, trial)
  \/ \E h \in Handlers : FindAfterLRem(h)
  \/ \E c \in Senders : NoneSuspended /\ Poll(c)
  \/ \E h \in Handlers : PollAfterGetDel(h)
  \/ \E c \in Leavers : NoneSuspended /\ NextMsg(c)
  \/ \E c \in Leavers : NoneSuspended /\ Leave(c)
  \/ \E c \in Leavers : NoneSuspended /\ Report(c)
  \/ \E c \in Leavers : NoneSuspended /\ Close(c)
  \/ \E t \in Instants : Tick(t)

SerialSpec == Init /\ [][SerialNext]_vars

\* the waiting lists the selection specification starts from: up to MaxPool
\* entries of other connections, pushed before the run
PoolIds == <<"c2", "c3", "c4">>
PoolTags == {<<"anime">>, <<"coding">>}
PoolLangs == {<<>>, <<"e", "n">>, <<"f", "r">>}
PoolEntry(i, ctry) ==
  {MakeEntry(PoolIds[i], StartNow - MsPerSecond, t, l, ctry[PoolIds[i]]) :
     t \in PoolTags, l \in PoolLangs}
Pools(ctry) ==
  UNION {{q \in [1..n -> UNION {PoolEntry(i, ctry) : i \in 1..n}] :
            \A i \in 1..n : q[i] \in PoolEntry(i, ctry)} : n \in 0..MaxPool}

\* one requester and a waiting list of entries with every mix of tags,
\* languages and countries
SelectInit ==
  /\ country \in {f \in [Clients -> Countries \cup {Null}] : f["c4"] = Null}
  /\ queue \in Pools(country)
  /\ mailbox = [c \in Clients |-> NoAssign]
  /\ nextCooldown = [c \in Clients |-> 0]
  /\ now = StartNow
  /\ open = [c \in Clients |-> TRUE]
  /\ secret = FALSE
  /\ hs = [h \in Handlers |-> Idle]
  /\ nextRoom = 1
  /\ last = <<>>
  /\ matches = {}
  /\ taken = [r \in Rooms |-> 0]
  /\ threw = FALSE
  /\ told = [c \in Clients |-> FALSE]

SelectNext ==
  \/ \E tags \in PoolTags \cup {<<>>}, lang \in PoolLangs :
       /\ nextRoom = 1
       /\ \A h \in Handlers : hs[h].pc = "idle"
       /\ Find("c1", tags, lang, TRUE, 0)
  \/ \E h \in Handlers : FindAfterLLen(h)
  \/ \E h \in Handlers : FindAfterRPush(h)
  \/ \E h \in Handlers, trial \in BOOLEAN : FindAfterLRange(h, trial)
  \/ \E h \in Handlers : FindAfterLRem(h)

SelectSpec == SelectInit /\ [][SelectNext]_vars

\* a waiting list of n entries pushed before the run, oldest first, none of
\* them compatible with a find of tags anime and language en but the one at
\* position k (none when k = 0)
ScanPool(n, k) ==
  [i \in 1..n |->
     MakeEntry(PoolIds[((i - 1) % Len(PoolIds)) + 1], StartNow - (n + 1 - i),
               IF i = k THEN <<"anime">> ELSE <<"coding">>, <<"f", "r">>, Null)]

\* one requester and a waiting list about as long as the scan reaches
ScanInit ==
  /\ queue \in {ScanPool(n, k) : n \in (ScanStop - 1)..(ScanStop + ScanExtra),
                                  k \in 0..(ScanStop + ScanExtra)}
  /\ mailbox = [c \in Clients |-> NoAssign]
  /\ nextCooldown = [c \in Clients |-> 0]
  /\ now = StartNow
  /\ country = [c \in Clients |-> IF c = "c1" THEN "US" ELSE Null]
  /\ open = [c \in Clients |-> TRUE]
  /\ secret = FALSE
  /\ hs = [h \in Handlers |-> Idle]
  /\ nextRoom = 1
  /\ last = <<>>
  /\ matches = {}
  /\ taken = [r \in Rooms |-> 0]
  /\ threw = FALSE
  /\ told = [c \in Clients |-> FALSE]

ScanNext ==
  \/ \E tags \in MsgTags, lang \in MsgLangs :
       /\ nextRoom = 1
       /\ NoneSuspended
       /\ Find("c1", tags, lang, TRUE, 0)
  \/ \E h \in Handlers : FindAfterLLen(h)
  \/ \E h \in Handlers, trial \in BOOLEAN : FindAfterLRange(h, trial)
  \/ \E h \in Handlers : FindAfterLRem(h)

ScanSpec == ScanInit /\ [][ScanNext]_vars

\* ------------------------------------------------------------------- claims

Window == NEXT_COOLDOWN_SECONDS * MsPerSecond

\* C1: an attempt whose removal of the selected entry removed nothing (a
\* concurrent attempt took the entry) makes no match: every match made, with
\* its matched message and its deposit, removed the entry it selected.
C1_LostRaceMakesNoMatch == \A m \in matches : m.removed = 1

\* C2: each participant id is in at most one entry of the waiting queue.
C2_OneEntryPerParticipant ==
  \A i, j \in 1..Len(queue) : i # j => queue[i].id # queue[j].id

\* C3: an assignment in a mailbox leaves it only by one poll of its
\* participant reading it or by its time-to-live running out; a later deposit
\* never replaces it.
C3_DepositReadOnceOrExpired ==
  [][\A c \in Clients :
       (mailbox[c].room # 0 /\ mailbox'[c] # mailbox[c]) =>
          /\ mailbox'[c] = NoAssign
          /\ \/ taken[mailbox[c].room] = 0 /\ taken'[mailbox[c].room] = 1
             \/ mailbox[c].exp <= now']_vars

\* C4: every match of requester R against the entry of W has a room id; the
\* assignment for W carries that room and names R, and it waits in W's
\* mailbox until W polls it or it expires, so that W's next poll before
\* expiry gets exactly that room.
C4_PartnerPollsTheSameRoom ==
  \A m \in matches :
    /\ m.room \in Rooms
    /\ (taken[m.room] = 0 /\ now < m.exp) =>
         /\ mailbox[m.partner].room = m.room
         /\ mailbox[m.partner].partner = m.req

\* a later match deposited for the same participant
Overwritten(m) == \E n \in matches : n.partner = m.partner /\ n.room > m.room

\* C5: GETDEL hands an assignment to one poll only: no room is returned by
\* two polls, a room returned is no longer in any mailbox, two suspended polls
\* never hold the same room; and a deposit stays in the mailbox until it is
\* polled, expires or is replaced, whatever polls came before it.
C5_SingleDelivery ==
  /\ \A r \in Rooms :
       /\ taken[r] <= 1
       /\ taken[r] = 1 => \A c \in Clients : mailbox[c].room # r
       /\ Cardinality({h \in Handlers :
                         hs[h].pc = "getdel" /\ hs[h].payload.room = r}) <= 1
  /\ \A m \in matches :
       (taken[m.room] = 0 /\ now < m.exp /\ ~Overwritten(m)) =>
          mailbox[m.partner].room = m.room

\* two polls of one connection suspended together: one holds the assignment,
\* the other holds nothing
C5_Witness ==
  \E g, h \in Handlers :
    /\ hs[g].pc = "getdel" /\ hs[h].pc = "getdel" /\ hs[g].id = hs[h].id
    /\ hs[g].payload.room # 0 /\ hs[h].payload.room = 0

\* C6: a find that passes verification while the cooldown is active sends
\* cooldown with the remaining seconds and changes nothing else: not the
\* waiting queue, no mailbox, no cooldown mark, no handler, no match.
C6_CooldownFindHasNoEffect ==
  [][\A c \in Clients, tags \in MsgTags, lang \in MsgLangs, skew \in 0..MaxSkewMs :
       (Find(c, tags, lang, TRUE, skew) /\ now - nextCooldown[c] < Window) =>
          /\ Len(last') = 1
          /\ last'[1].to = c /\ last'[1].type = "cooldown"
          /\ last'[1].seconds = Ceil(Window - (now' - nextCooldown[c]), MsPerSecond)
          /\ queue' = queue /\ mailbox' = mailbox
          /\ nextCooldown' = nextCooldown
          /\ hs' = hs /\ matches' = matches /\ nextRoom' = nextRoom]_vars

\* a find was just refused for cooldown while an entry waits in the queue
C6_Witness ==
  /\ Len(last) = 1 /\ last[1].type = "cooldown"
  /\ Len(queue) > 0
  /\ now > nextCooldown["c1"]

\* C7: next and leave set the mark of their connection to the time of the
\* message and send left, in every state; no step lowers a mark.
C7_NextLeaveMarkCooldown ==
  [][\A c \in Clients :
       /\ (NextMsg(c) \/ Leave(c)) =>
            /\ nextCooldown'[c] = now
            /\ \E i \in 1..Len(last') : last'[i].to = c /\ last'[i].type = "left"
       /\ nextCooldown'[c] >= nextCooldown[c]]_vars

\* a connection that was never queued or matched has just been marked, later
\* than an earlier mark
C7_Witness ==
  /\ queue = <<>> /\ matches = {}
  /\ \A h \in Handlers : hs[h].pc = "idle"
  /\ nextCooldown["c1"] = now /\ now > StartNow + 1
  /\ Len(last) > 0 /\ last[1].type = "left"

\* C8: a verified find is refused with cooldown exactly when
\* now - lastMark < window, and the seconds it reports are at least 1 and at
\* most the window length.
C8_CooldownWindowAndSeconds ==
  [][\A c \in Clients, tags \in MsgTags, lang \in MsgLangs, skew \in 0..MaxSkewMs :
       Find(c, tags, lang, TRUE, skew) =>
         LET refused == Len(last') = 1 /\ last'[1].type = "cooldown" IN
         /\ refused <=> now - nextCooldown[c] < Window
         /\ refused => last'[1].seconds \in 1..NEXT_COOLDOWN_SECONDS]_vars

\* C9: a find past its guards that saw a non-empty queue goes on to a match
\* and is answered matched with exactly the chosen entry removed, its own
\* entry not appended; one that saw an empty queue appends its entry at the
\* tail and nothing else.
C9_MatchedRemovesQueuedOnEmpty ==
  [][\A h \in Handlers :
       /\ (FindAfterLLen(h) /\ hs[h].len > 0) =>
            (hs'[h].pc = "lrange" /\ queue' = queue)
       /\ (FindAfterLLen(h) /\ hs[h].len = 0) =>
            (hs'[h].pc = "rpush" /\ queue' = Append(queue, hs[h].entry))
       /\ FindAfterLRem(h) =>
            (hs[h].removed = 1 /\ threw' = threw /\ queue' = queue)]_vars

\* index (1-based) of the first candidate sharing a tag with the requester
FirstTagSharing(parsed, tags) ==
  CHOOSE i \in 1..Len(parsed) :
    /\ Overlap(parsed[i], tags)
    /\ \A j \in 1..(i - 1) : ~Overlap(parsed[j], tags)

\* a candidate's language is unset on either side, or equal
LangCompatible(p, lang) == lang = <<>> \/ p.lang = <<>> \/ p.lang = lang

\* index (1-based) of the first candidate sharing a tag or language-compatible
FirstTagOrLang(parsed, tags, lang) ==
  CHOOSE i \in 1..Len(parsed) :
    /\ Overlap(parsed[i], tags) \/ LangCompatible(parsed[i], lang)
    /\ \A j \in 1..(i - 1) :
         ~(Overlap(parsed[j], tags) \/ LangCompatible(parsed[j], lang))

\* some candidate of the handler shares a tag with its requester
SomeTagShared(h) ==
  \E i \in 1..Len(hs[h].candidates) :
    Overlap(hs[h].candidates[i], hs[h].entry.tags)

\* C10 as stated: when some entry of the pool shares a tag with the
\* requester, the partner selected is the first tag-sharing entry.
C10_FirstTagSharingSelected ==
  \A h \in Handlers :
    (hs[h].pc = "lrem" /\ SomeTagShared(h)) =>
       hs[h].chosen = hs[h].candidates[FirstTagSharing(hs[h].candidates,
                                                      hs[h].entry.tags)]

\* C10 amended: when some entry of the pool shares a tag with the requester,
\* the partner selected is the first entry in pool order that shares a tag
\* or is language-compatible, whatever the country and the bias trial.
C10_FirstTagOrLangSelected ==
  \A h \in Handlers :
    (hs[h].pc = "lrem" /\ SomeTagShared(h)) =>
       hs[h].chosen = hs[h].candidates[FirstTagOrLang(hs[h].candidates,
                                                     hs[h].entry.tags,
                                                     hs[h].entry.lang)]

\* the second entry shares a tag and has the requester's country, the first
\* shares none and is language-compatible: the first is selected
C10_Witness ==
  \E h \in Handlers :
    /\ hs[h].pc = "lrem" /\ Len(hs[h].candidates) = 2
    /\ ~Overlap(hs[h].candidates[1], hs[h].entry.tags)
    /\ Overlap(hs[h].candidates[2], hs[h].entry.tags)
    /\ hs[h].entry.country # Null
    /\ hs[h].candidates[2].country = hs[h].entry.country
    /\ hs[h].candidates[1].country # hs[h].entry.country
    /\ hs[h].chosen = hs[h].candidates[1]

\* no candidate of the handler shares a tag with its requester or is
\* language-compatible with it
NoneCompatible(h) ==
  \A i \in 1..Len(hs[h].candidates) :
    /\ ~Overlap(hs[h].candidates[i], hs[h].entry.tags)
    /\ ~LangCompatible(hs[h].candidates[i], hs[h].entry.lang)

\* some candidate of the handler has the country of its requester
SomeSameCountry(h) ==
  /\ hs[h].entry.country # Null
  /\ \E i \in 1..Len(hs[h].candidates) :
       hs[h].candidates[i].country = hs[h].entry.country

\* index (1-based) of the first candidate with the requester's country
FirstSameCountry(h) ==
  CHOOSE i \in 1..Len(hs[h].candidates) :
    /\ hs[h].candidates[i].country = hs[h].entry.country
    /\ \A j \in 1..(i - 1) :
         hs[h].candidates[j].country # hs[h].entry.country

\* C11: over a non-empty pool with no entry sharing a tag and none
\* language-compatible, the partner selected is the first entry with the
\* requester's country when the requester has a country, such an entry
\* exists and the bias trial succeeds; in every other case it is the entry
\* at index 0.
C11_BiasPickOrIndexZero ==
  [][\A h \in Handlers, trial \in BOOLEAN :
       (FindAfterLRange(h, trial) /\ Len(hs[h].candidates) > 0
          /\ NoneCompatible(h)) =>
         hs'[h].chosen =
           IF SomeSameCountry(h) /\ trial
           THEN hs[h].candidates[FirstSameCountry(h)]
           ELSE hs[h].candidates[1]]_vars

\* no entry is compatible, the second has the requester's country and the
\* first has not: the trial succeeded and the second is selected
C11_Witness ==
  \E h \in Handlers :
    /\ hs[h].pc = "lrem" /\ Len(hs[h].candidates) = 2
    /\ NoneCompatible(h) /\ SomeSameCountry(h)
    /\ hs[h].candidates[1].country # hs[h].entry.country
    /\ hs[h].chosen = hs[h].candidates[2]

\* C12: after a leave or a next of a participant no waiting entry of it is
\* in the queue, so that it cannot be selected as a partner and gets no
\* assignment until it sends find again.
C12_LeaveRemovesWaitingEntry ==
  [][\A c \in Clients :
       (NextMsg(c) \/ Leave(c)) =>
          \A i \in 1..Len(queue') : queue'[i].id # c]_vars

\* C13: once a participant has been sent matched, a poll it sends before
\* its next find finds its mailbox empty: it gets no matched message and no
\* state changes.
C13_PollAfterMatchedIsNoOp ==
  [][\A c \in Clients :
       (Poll(c) /\ told[c]) =>
          /\ mailbox[c].room = 0
          /\ mailbox' = mailbox /\ taken' = taken /\ queue' = queue]_vars

\* C14: a next message marks the cooldown and sends left and nothing else:
\* no find is attempted, no entry is appended, no queued is sent; and queued
\* is only ever sent by the find handler that has just appended the entry of
\* the participant it is sent to.
C14_NextSendsOnlyLeft ==
  [][/\ \A c \in Clients :
          NextMsg(c) =>
            /\ nextCooldown'[c] = now
            /\ Len(last') = 1 /\ last'[1].to = c /\ last'[1].type = "left"
            /\ queue' = queue /\ hs' = hs
     /\ \A i \in 1..Len(last') :
          last'[i].type = "queued" =>
            \E h \in Handlers :
              /\ hs[h].pc = "rpush" /\ hs[h].id = last'[i].to
              /\ hs'[h].pc = "idle"]_vars

\* C15: a failing queue, mailbox or issuer call of a find attempt is turned
\* into an error message to the requester, and no attempt ends with an entry
\* removed from the queue, or its requester told matched, without an
\* assignment deposited for the participant of that entry; the connection
\* stays open.
C15_FailureIsErrorAndNoPartialMatch ==
  [][\A h \in Handlers :
       /\ (FindAfterLLenFails(h) \/ FindAfterLRemIssuerFails(h)
             \/ FindAfterLRemSetExFails(h)) =>
            /\ \E i \in 1..Len(last') :
                 last'[i].to = hs[h].id /\ last'[i].type = "error"
            /\ open' = open
       /\ (hs[h].pc = "lrem" /\ hs'[h].pc = "idle"
             /\ (hs[h].removed = 1
                   \/ \E i \in 1..Len(last') : last'[i].type = "matched")) =>
            /\ mailbox'[hs[h].chosen.id].room = nextRoom
            /\ mailbox'[hs[h].chosen.id].partner = hs[h].id]_vars

\* C16: with a verifier configured, a find whose proof fails verification
\* (the verifier says no, or cannot be reached) is answered with error only
\* and leaves the waiting queue, every mailbox and every cooldown mark as
\* they were, also while the cooldown of the sender is active: verification
\* comes before the cooldown check.
C16_FailedProofOnlyError ==
  [][\A c \in Clients, tags \in MsgTags, lang \in MsgLangs, skew \in 0..MaxSkewMs :
       (secret /\ Find(c, tags, lang, FALSE, skew)) =>
          /\ Len(last') = 1
          /\ last'[1].to = c /\ last'[1].type = "error"
          /\ queue' = queue /\ mailbox' = mailbox
          /\ nextCooldown' = nextCooldown
          /\ hs' = hs /\ matches' = matches]_vars

\* a find was just answered with error while the cooldown of its sender is
\* active and an entry waits in the queue
C16_Witness ==
  /\ secret
  /\ Len(last) = 1 /\ last[1].type = "error" /\ last[1].to = "c1"
  /\ nextCooldown["c1"] > 0
  /\ now - nextCooldown["c1"] < Window
  /\ Len(queue) > 0

\* C17: a poll of a participant whose mailbox holds no assignment sends no
\* message, at the message and at the reply of GETDEL, and leaves the waiting
\* queue, every mailbox and every cooldown mark unchanged: a participant
\* queued on an empty queue that polls keeps its entry in the queue.
C17_EmptyPollChangesNothing ==
  [][/\ \A c \in Clients :
          (Poll(c) /\ mailbox[c].room = 0) =>
            /\ last' = <<>>
            /\ queue' = queue /\ mailbox' = mailbox
            /\ nextCooldown' = nextCooldown /\ taken' = taken
     /\ \A h \in Handlers :
          (PollAfterGetDel(h) /\ hs[h].payload.room = 0) =>
            /\ last' = <<>>
            /\ queue' = queue /\ mailbox' = mailbox
            /\ nextCooldown' = nextCooldown /\ told' = told]_vars

\* a participant alone in the queue has polled and GETDEL returned nothing:
\* its entry is still the only one in the queue
C17_Witness ==
  /\ Len(queue) = 1 /\ queue[1].id = "c1"
  /\ matches = {} /\ mailbox["c1"].room = 0
  /\ \E h \in Handlers : hs[h].pc = "getdel" /\ hs[h].id = "c1"
                            /\ hs[h].payload.room = 0

\* every entry of q is in r at its place, unaltered
KeepsEntries(q, r) == Len(r) >= Len(q) /\ SubSeq(r, 1, Len(q)) = q

\* C18: an entry leaves the queue, or changes, only by the removal step of a
\* matching attempt that selected it as the partner of another participant;
\* a poll, next, leave, report, close or the passing of time leaves the
\* queue as it is.
C18_EntryLeavesOnlyByMatch ==
  [][/\ ~KeepsEntries(queue, queue') =>
          \E h \in Handlers :
            /\ hs[h].pc = "lrange" /\ hs'[h].pc = "lrem"
            /\ hs'[h].removed = 1
            /\ queue' = LRem(queue, hs'[h].chosen).list
            /\ hs'[h].chosen.id # hs[h].id
     /\ \A c \in Clients :
          (Poll(c) \/ NextMsg(c) \/ Leave(c) \/ Report(c) \/ Close(c)) =>
             queue' = queue
     /\ \A h \in Handlers : PollAfterGetDel(h) => queue' = queue
     /\ \A t \in Instants : Tick(t) => queue' = queue]_vars

\* C19: no matched message and no assignment in a mailbox names the
\* participant it is for as the partner: a find is never paired with the
\* waiting entry of its own sender.
C19_NeverPairedWithItself ==
  /\ \A i \in 1..Len(last) :
       last[i].type = "matched" => last[i].partner # last[i].to
  /\ \A c \in Clients : mailbox[c].room # 0 => mailbox[c].partner # c
  /\ \A m \in matches : m.partner # m.req

\* C20: when every handler runs to its end before another one starts, the
\* waiting queue never holds more than one entry: a find appends only when
\* it saw the queue empty, and one that saw an entry removes one.  (With
\* handlers interleaved two finds that both saw it empty both append: the
\* queue of two entries reached under Spec.)
C20_SerialQueueAtMostOne ==
  /\ Len(queue) <= 1
  /\ \A h \in Handlers :
       /\ hs[h].pc \in {"llen", "lrange"} => hs[h].len = Len(queue)
       /\ hs[h].pc = "rpush" => hs[h].len = 0 /\ queue = <<hs[h].entry>>
       /\ hs[h].pc = "lrem" => hs[h].removed = 1 /\ queue = <<>>

\* a find that saw one entry in the queue has removed it, after an earlier
\* match: the queue went from empty to one entry and back twice
C20_Witness ==
  /\ queue = <<>> /\ matches # {}
  /\ \E h \in Handlers : hs[h].pc = "lrem" /\ hs[h].removed = 1

\* C21: a matching attempt considers at most the first 50 entries of the
\* waiting queue: its snapshot holds no more than 50 entries, and the
\* partner it selects is one of the first 50 of the snapshot.
C21_ScanAtMostFifty ==
  \A h \in Handlers :
    /\ hs[h].pc \in {"lrange", "lrem"} => Len(hs[h].candidates) <= ScanStop
    /\ hs[h].pc = "lrem" =>
         \E i \in 1..Min(ScanStop, Len(hs[h].candidates)) :
           hs[h].candidates[i] = hs[h].chosen

====
